---- MODULE Spec2Model ----
(***************************************************************************)
(* Model of the Merkle search tree ("mast") of pubky-core: the node table, *)
(* the search path, insert (unzip) and remove (zip / zip_up).              *)
(*                                                                         *)
(* remove, zip and zip_up are translated from                              *)
(* src/mast/src/operations/remove.rs.  The node store (open, save,         *)
(* increment, decrement, hash, rank), binary_search_path and insert are    *)
(* not part of the sources at hand; they follow sections 3 and 4 of the    *)
(* specification.                                                          *)
(*                                                                         *)
(* A second part models one client of src/pubky/src/native/api/auth.rs:    *)
(* signup, signin, signout, session, and the auth request answered through *)
(* a relay.  The homeserver's session routes, the cookie store and the     *)
(* relay are not part of the sources at hand and are not described by the  *)
(* specification; they are modelled as the calls of auth.rs use them.      *)
(***************************************************************************)
EXTENDS Integers, Sequences, FiniteSets, TLC

\* ------------------------------------------------------------------ bounds
NumKeys == 5
NumVals == 2
MaxKept == 1
MaxOps == 6
MaxOpsKept == 4
NumPubkys == 2
MaxSessions == 2
MaxRequests == 1
MaxTimeouts == 1

Keys == 1..NumKeys
Vals == 1..NumVals

\* The empty byte string as a key: smaller than every other key.  insert
\* never stores it; remove can be called with it.
EmptyKey == 0

\* ------------------------------------------------------------- node codec
\* An absent child hash / absent root hash (Option<Hash>::None).
NoHash == <<>>

\* Option<Node>: the empty sequence is None, <<n>> is Some(n).
None == <<>>
Some(n) == <<n>>

\* rank = hash of the key, compared as raw bytes.  The hash is modelled by a
\* fixed table that is injective on the key space: distinct keys have
\* distinct ranks, in an order unrelated to the key order.
RankTable == <<6, 5, 10, 1, 2, 4, 9, 3, 8, 7>>

Rank(k) == IF k = EmptyKey THEN 0 ELSE RankTable[k]

\* hash = hash of the canonical serialization of (key, value, left, right);
\* ref_count is not part of it.  The hash is modelled as collision free: it
\* is the serialized tuple itself, children being given by their hashes.
Hash(n) == <<n.key, n.value, n.left, n.right>>

\* Option<Node> -> Option<Hash>, i.e. `root.map(|mut n| n.hash())`.
HashOpt(o) == IF Len(o) = 0 THEN NoHash ELSE Hash(o[1])

\* Node::new: no children, ref_count 0.
NewNode(k, v) == [key |-> k, value |-> v, left |-> NoHash, right |-> NoHash, rc |-> 0]

set_left_child(n, h) == [n EXCEPT !.left = h]

set_right_child(n, h) == [n EXCEPT !.right = h]

set_value(n, v) == [n EXCEPT !.value = v]

increment_ref_count(n) == [n EXCEPT !.rc = @ + 1]

\* The count is unsigned: a decrement of 0 is recorded as -1, which stands
\* for the wrapped (or aborted) result.
decrement_ref_count(n) == [n EXCEPT !.rc = @ - 1]

\* ------------------------------------------------------------- node store
\* The table maps a storage key (a hash) to (ref_count, payload).
Payload(n) == [key |-> n.key, value |-> n.value, left |-> n.left, right |-> n.right]

\* open(h): load and decode; nothing if absent.
Open(T, h) ==
  IF h \in DOMAIN T
    THEN Some([key |-> T[h].node.key, value |-> T[h].node.value,
               left |-> T[h].node.left, right |-> T[h].node.right,
               rc |-> T[h].rc])
    ELSE None

\* save that writes the record whatever the count.
save_WritesZero(T, n) ==
  [h \in (DOMAIN T) \cup {Hash(n)} |->
     IF h = Hash(n) THEN [rc |-> n.rc, node |-> Payload(n)] ELSE T[h]]

\* save under the hash the node had before its children were set.
save_StaleHash(T, n) ==
  LET stale == <<n.key, n.value, NoHash, NoHash>>
  IN IF n.rc = 0
       THEN [h \in (DOMAIN T) \ {stale} |-> T[h]]
       ELSE [h \in (DOMAIN T) \cup {stale} |->
               IF h = stale THEN [rc |-> n.rc, node |-> Payload(n)] ELSE T[h]]

\* save(n): write (ref_count, encode(n)) under hash(n); a count that a
\* decrement brought to zero deletes the record instead.
save(T, n) ==
  IF n.rc = 0
    THEN [h \in (DOMAIN T) \ {Hash(n)} |-> T[h]]
    ELSE [h \in (DOMAIN T) \cup {Hash(n)} |->
            IF h = Hash(n) THEN [rc |-> n.rc, node |-> Payload(n)] ELSE T[h]]

\* ----------------------------------------------------------------- search
EmptyPath == [upper |-> <<>>, lower |-> <<>>, found |-> None]

\* The descent of binary_search_path: BST order decides the branch; nodes
\* above the split point go to upper, the split point and everything below
\* it to lower; an exact match ends the search in found.
RECURSIVE SearchLoop(_, _, _, _)
SearchLoop(T, next, key, path) ==
  IF Len(next) = 0 THEN path
  ELSE LET current == next[1]
           above == Len(path.lower) = 0 /\ Rank(current.key) > Rank(key)
       IN IF key = current.key
            THEN [path EXCEPT !.found = Some(current)]
            ELSE LET branch == IF key < current.key THEN "Left" ELSE "Right"
                     child == IF branch = "Left" THEN current.left ELSE current.right
                     entry == [node |-> current, branch |-> branch]
                 IN SearchLoop(T, Open(T, child), key,
                      IF above THEN [path EXCEPT !.upper = Append(@, entry)]
                               ELSE [path EXCEPT !.lower = Append(@, entry)])

\* A search that ignores the ranks: the whole descent counts as upper path.
binary_search_path_NoSplit(T, root, key) ==
  LET p == SearchLoop(T, root, key, EmptyPath)
  IN [upper |-> p.upper \o p.lower, lower |-> <<>>, found |-> p.found]

\* A search that stops at the split point and forgets the lower path.
binary_search_path_DropsLower(T, root, key) ==
  LET p == SearchLoop(T, root, key, EmptyPath)
  IN [upper |-> p.upper, lower |-> <<>>, found |-> p.found]

binary_search_path(T, root, key) == SearchLoop(T, root, key, EmptyPath)

\* ------------------------------------------------------------------- zip
\* zip_up with the right node hung on the wrong side of the left node.
ZipUpBoth_WrongSide(T, previous, left, right) ==
  IF Rank(left.key) > Rank(right.key)
    THEN LET r1 == decrement_ref_count(right)
             T1 == save(T, r1)
             r2 == increment_ref_count(set_left_child(r1, HashOpt(previous)))
             T2 == save(T1, r2)
             l1 == decrement_ref_count(left)
             T3 == save(T2, l1)
             l2 == increment_ref_count(set_left_child(l1, Hash(r2)))
             T4 == save(T3, l2)
         IN [table |-> T4, node |-> Some(l2)]
    ELSE LET l1 == decrement_ref_count(left)
             T1 == save(T, l1)
             l2 == increment_ref_count(set_right_child(l1, HashOpt(previous)))
             T2 == save(T1, l2)
             r1 == decrement_ref_count(right)
             T3 == save(T2, r1)
             r2 == increment_ref_count(set_left_child(r1, Hash(l2)))
             T4 == save(T3, r2)
         IN [table |-> T4, node |-> Some(r2)]

\* remove.rs 100-145: both spines have a node at this index.
ZipUpBoth(T, previous, left, right) ==
  IF Rank(left.key) > Rank(right.key)
    THEN LET r1 == decrement_ref_count(right)
             T1 == save(T, r1)
             r2 == increment_ref_count(set_left_child(r1, HashOpt(previous)))
             T2 == save(T1, r2)
             l1 == decrement_ref_count(left)
             T3 == save(T2, l1)
             l2 == increment_ref_count(set_right_child(l1, Hash(r2)))
             T4 == save(T3, l2)
         IN [table |-> T4, node |-> Some(l2)]
    ELSE LET l1 == decrement_ref_count(left)
             T1 == save(T, l1)
             l2 == increment_ref_count(set_right_child(l1, HashOpt(previous)))
             T2 == save(T1, l2)
             r1 == decrement_ref_count(right)
             T3 == save(T2, r1)
             r2 == increment_ref_count(set_left_child(r1, Hash(l2)))
             T4 == save(T3, r2)
         IN [table |-> T4, node |-> Some(r2)]

\* remove.rs 91-151.  left and right are Option<&mut Node>.
zip_up(T, previous, left, right) ==
  IF Len(left) = 1 /\ Len(right) = 0 THEN [table |-> T, node |-> Some(left[1])]
  ELSE IF Len(left) = 0 /\ Len(right) = 1 THEN [table |-> T, node |-> Some(right[1])]
  ELSE IF Len(left) = 1 /\ Len(right) = 1 THEN ZipUpBoth(T, previous, left[1], right[1])
  ELSE [table |-> T, node |-> None]

\* remove.rs 60-65: extend the vector while the last node has a right child
\* that opens.
RECURSIVE RightSpine(_, _)
RightSpine(T, spine) ==
  IF Len(spine) = 0 THEN spine
  ELSE LET next == Open(T, spine[Len(spine)].right)
       IN IF Len(next) = 0 THEN spine ELSE RightSpine(T, Append(spine, next[1]))

\* remove.rs 67-72.
RECURSIVE LeftSpine(_, _)
LeftSpine(T, spine) ==
  IF Len(spine) = 0 THEN spine
  ELSE LET next == Open(T, spine[Len(spine)].left)
       IN IF Len(next) = 0 THEN spine ELSE LeftSpine(T, Append(spine, next[1]))

\* Vec::get_mut(i - 1) as an option.
GetAt(vec, i) == IF i >= 1 /\ i <= Len(vec) THEN Some(vec[i]) ELSE None

\* remove.rs 77-86: the loop `while i > 0`, pairing the spines index-wise.
RECURSIVE ZipLoop(_, _, _, _, _)
ZipLoop(T, previous, left_subtree, right_subtree, i) ==
  IF i > 0
    THEN LET r == zip_up(T, previous, GetAt(left_subtree, i), GetAt(right_subtree, i))
         IN ZipLoop(r.table, r.node, left_subtree, right_subtree, i - 1)
    ELSE [table |-> T, node |-> previous]

Max(a, b) == IF a > b THEN a ELSE b

\* zip that releases the target twice.
zip_DoubleDecrement(T, target) ==
  LET t1 == decrement_ref_count(decrement_ref_count(target))
      T1 == save(T, t1)
      left_subtree == RightSpine(T1, Open(T1, t1.left))
      right_subtree == LeftSpine(T1, Open(T1, t1.right))
  IN ZipLoop(T1, None, left_subtree, right_subtree,
             Max(Len(left_subtree), Len(right_subtree)))

\* remove.rs 41-89.
zip(T, target) ==
  LET t1 == decrement_ref_count(target)
      T1 == save(T, t1)
      left_subtree == RightSpine(T1, Open(T1, t1.left))
      right_subtree == LeftSpine(T1, Open(T1, t1.right))
  IN ZipLoop(T1, None, left_subtree, right_subtree,
             Max(Len(left_subtree), Len(right_subtree)))

\* ---------------------------------------------------------------- remove
\* A propagation that also releases, at each ancestor, the child on the
\* side the search did not take.
RECURSIVE PropagateUp_ReleasesSibling(_, _, _)
PropagateUp_ReleasesSibling(T, upper, root) ==
  IF Len(upper) = 0 THEN [table |-> T, root |-> root]
  ELSE LET e == upper[Len(upper)]
           sibling == Open(T, IF e.branch = "Left" THEN e.node.right ELSE e.node.left)
           T0 == IF Len(sibling) = 0 THEN T ELSE save(T, decrement_ref_count(sibling[1]))
           n1 == decrement_ref_count(e.node)
           T1 == save(T0, n1)
           n2 == IF e.branch = "Left" THEN set_left_child(n1, HashOpt(root))
                                      ELSE set_right_child(n1, HashOpt(root))
           n3 == increment_ref_count(n2)
           T2 == save(T1, n3)
       IN PropagateUp_ReleasesSibling(T2, SubSeq(upper, 1, Len(upper) - 1), Some(n3))

\* A propagation that saves the new version of each ancestor with the
\* decremented count.
RECURSIVE PropagateUp_NoIncrement(_, _, _)
PropagateUp_NoIncrement(T, upper, root) ==
  IF Len(upper) = 0 THEN [table |-> T, root |-> root]
  ELSE LET e == upper[Len(upper)]
           n1 == decrement_ref_count(e.node)
           T1 == save(T, n1)
           n2 == IF e.branch = "Left" THEN set_left_child(n1, HashOpt(root))
                                      ELSE set_right_child(n1, HashOpt(root))
           T2 == save(T1, n2)
       IN PropagateUp_NoIncrement(T2, SubSeq(upper, 1, Len(upper) - 1), Some(n2))

\* remove.rs 25-36: pop the upper path, rewriting each ancestor.
RECURSIVE PropagateUp(_, _, _)
PropagateUp(T, upper, root) ==
  IF Len(upper) = 0 THEN [table |-> T, root |-> root]
  ELSE LET e == upper[Len(upper)]
           n1 == decrement_ref_count(e.node)
           T1 == save(T, n1)
           n2 == IF e.branch = "Left" THEN set_left_child(n1, HashOpt(root))
                                      ELSE set_right_child(n1, HashOpt(root))
           n3 == increment_ref_count(n2)
           T2 == save(T1, n3)
       IN PropagateUp(T2, SubSeq(upper, 1, Len(upper) - 1), Some(n3))

\* remove that takes the deepest node of the lower path when nothing is found.
remove_LowerLast(T, root, key) ==
  LET path == binary_search_path(T, root, key)
      z == IF Len(path.found) = 1
             THEN zip(T, path.found[1])
             ELSE [table |-> T,
                   node |-> IF Len(path.lower) = 0 THEN None
                            ELSE Some(path.lower[Len(path.lower)].node)]
      up == PropagateUp(z.table, path.upper, z.node)
  IN [table |-> up.table, root |-> up.root, removed |-> path.found]

\* remove that returns the root of the zipped subtree as the removed node.
remove_ReturnsZipped(T, root, key) ==
  LET path == binary_search_path(T, root, key)
      z == IF Len(path.found) = 1
             THEN zip(T, path.found[1])
             ELSE [table |-> T,
                   node |-> IF Len(path.lower) = 0 THEN None ELSE Some(path.lower[1].node)]
      up == PropagateUp(z.table, path.upper, z.node)
  IN [table |-> up.table, root |-> up.root, removed |-> z.node]

\* remove.rs 8-39: returns the table, the new root and the removed node.
remove(T, root, key) ==
  LET path == binary_search_path(T, root, key)
      z == IF Len(path.found) = 1
             THEN zip(T, path.found[1])
             ELSE [table |-> T,
                   node |-> IF Len(path.lower) = 0 THEN None ELSE Some(path.lower[1].node)]
      up == PropagateUp(z.table, path.upper, z.node)
  IN [table |-> up.table, root |-> up.root, removed |-> path.found]

\* ---------------------------------------------------------------- insert
\* Unzip: walk path.lower from the deepest node up; a node left by its right
\* branch (key < new key) joins the left chain, the others the right chain.
RECURSIVE Unzip(_, _, _, _)
Unzip(T, lower, left_subtree, right_subtree) ==
  IF Len(lower) = 0
    THEN [table |-> T, left |-> left_subtree, right |-> right_subtree]
    ELSE LET e == lower[Len(lower)]
             n1 == decrement_ref_count(e.node)
             T1 == save(T, n1)
             n2 == IF e.branch = "Right" THEN set_right_child(n1, left_subtree)
                                         ELSE set_left_child(n1, right_subtree)
             n3 == increment_ref_count(n2)
             T2 == save(T1, n3)
         IN IF e.branch = "Right"
              THEN Unzip(T2, SubSeq(lower, 1, Len(lower) - 1), Hash(n3), right_subtree)
              ELSE Unzip(T2, SubSeq(lower, 1, Len(lower) - 1), left_subtree, Hash(n3))

\* insert that takes any entry found under the key for the entry to insert.
insert_KeepsOldValue(T, root, key, value) ==
  LET path == binary_search_path(T, root, key)
  IN IF Len(path.found) = 1
       THEN [table |-> T, root |-> root[1]]
       ELSE LET u == Unzip(T, path.lower, NoHash, NoHash)
                n == increment_ref_count(
                       set_right_child(
                         set_left_child(NewNode(key, value), u.left),
                         u.right))
                up == PropagateUp(save(u.table, n), path.upper, Some(n))
            IN [table |-> up.table, root |-> up.root[1]]

\* insert: returns the table and the new root node.
insert(T, root, key, value) ==
  LET path == binary_search_path(T, root, key)
  IN IF Len(path.found) = 1 /\ path.found[1].value = value
       THEN \* idempotence: nothing is written, the root is the old root
            [table |-> T, root |-> root[1]]
       ELSE LET u == Unzip(T, path.lower, NoHash, NoHash)
                s == IF Len(path.found) = 1
                       THEN \* new value for an existing key: a new version
                            \* of the node with the same children
                            LET e1 == decrement_ref_count(path.found[1])
                                T1 == save(u.table, e1)
                                e2 == increment_ref_count(set_value(e1, value))
                            IN [table |-> save(T1, e2), node |-> e2]
                       ELSE LET n == increment_ref_count(
                                       set_right_child(
                                         set_left_child(NewNode(key, value), u.left),
                                         u.right))
                            IN [table |-> save(u.table, n), node |-> n]
                up == PropagateUp(s.table, path.upper, Some(s.node))
            IN [table |-> up.table, root |-> up.root[1]]

\* ------------------------------------------------------------------- get
\* Read-only descent in BST order.
RECURSIVE get(_, _, _)
get(T, h, key) ==
  IF h \notin DOMAIN T THEN 0
  ELSE LET n == T[h].node
       IN IF key = n.key THEN n.value
          ELSE IF key < n.key THEN get(T, n.left, key) ELSE get(T, n.right, key)

\* ------------------------------------------------------ views of a tree
\* The hashes of the records reachable from hash h through child hashes.
RECURSIVE Reach(_, _)
Reach(T, h) ==
  IF h \notin DOMAIN T THEN {}
  ELSE {h} \cup Reach(T, T[h].node.left) \cup Reach(T, T[h].node.right)

\* The keys of the tree rooted at hash h.
TreeKeys(T, h) == {T[x].node.key : x \in Reach(T, h)}

\* --------------------------------------------------------- state machine
VARIABLES
  table,    \* the nodes table: hash -> [rc, node]
  root,     \* the caller's current root hash, NoHash for the empty tree
  kept,     \* earlier root hashes the caller still holds as named roots
  last,     \* the last call: its arguments, what it met and what it returned
  entries,  \* history: the value last inserted for each key, 0 once removed
  ops,      \* history: the number of insert and remove calls so far
  users,    \* homeserver: the pubkys that have signed up
  sessions, \* homeserver: the live sessions, [id, pubky, caps]
  cookies,  \* the client's cookie store: pubky -> session id, 0 for none
  latestCall, \* history: the latest successful call of the client per pubky
  req,      \* the client's auth request and the caller's position in it
  relay,    \* the relay channel of the request: the posted token, if any
  sub,      \* position of the spawned subscribe_to_auth_response task
  rx,       \* the bounded(1) channel from the task to AuthRequest::response
  got       \* what AuthRequest::response returned

mastVars == <<table, root, kept, last, entries, ops>>
authVars == <<users, sessions, cookies, latestCall, req, relay, sub, rx, got>>
vars == <<table, root, kept, last, entries, ops,
          users, sessions, cookies, latestCall, req, relay, sub, rx, got>>

Pubkys == 1..NumPubkys

NoRequest == [phase |-> "none", caps |-> <<>>, url |-> <<>>, sent |-> 0,
              timeouts |-> 0, n |-> 0]

EmptyTable == [h \in {} |-> 0]

NoCall == [op |-> "none", key |-> 0, before |-> NoHash, inTree |-> FALSE,
           latest |-> 0, upper |-> 0, lower |-> 0, removed |-> None, saves |-> 0]

Init ==
  /\ table = EmptyTable
  /\ root = NoHash
  /\ kept = {}
  /\ last = NoCall
  /\ entries = [k \in Keys |-> 0]
  /\ ops = 0
  /\ users = {}
  /\ sessions = {}
  /\ cookies = [p \in Pubkys |-> 0]
  /\ latestCall = [p \in Pubkys |-> "none"]
  /\ req = NoRequest
  /\ relay = None
  /\ sub = "idle"
  /\ rx = None
  /\ got = None

\* The length of the explored histories: MaxOps calls for a caller that holds
\* only the current root, MaxOpsKept calls once an earlier root is kept.
OpsBound == IF kept = {} THEN MaxOps ELSE MaxOpsKept

Min(a, b) == IF a < b THEN a ELSE b

\* The number of times remove calls Node::save: twice per upper node
\* (remove.rs 26, 33), once for the target (46) and four times per index at
\* which both spines have a node (108-141).
RemoveSaves(T, r, k) ==
  LET path == binary_search_path(T, r, k)
      t == path.found
      pairs == IF Len(t) = 0 THEN 0
               ELSE Min(Len(RightSpine(T, Open(T, t[1].left))),
                        Len(LeftSpine(T, Open(T, t[1].right))))
  IN 2 * Len(path.upper) + (IF Len(t) = 0 THEN 0 ELSE 1 + 4 * pairs)

\* What a call with key k meets in the current tree.
Call(op, k, latest, removed, saves) ==
  LET path == binary_search_path(table, Open(table, root), k)
  IN [op |-> op, key |-> k, before |-> root,
      inTree |-> k \in TreeKeys(table, root), latest |-> latest,
      upper |-> Len(path.upper), lower |-> Len(path.lower), removed |-> removed,
      saves |-> saves]

\* The caller opens the root hash and calls insert, then holds the new root.
Insert(k, v) ==
  LET r == insert(table, Open(table, root), k, v)
  IN /\ ops < OpsBound
     /\ ops' = ops + 1
     /\ table' = r.table
     /\ root' = Hash(r.root)
     /\ entries' = [entries EXCEPT ![k] = v]
     /\ last' = Call("insert", k, v, None, 0)
     /\ UNCHANGED kept
     /\ UNCHANGED authVars

\* The caller opens the root hash and calls remove, then holds the new root.
Remove(k) ==
  LET r == remove(table, Open(table, root), k)
  IN /\ ops < OpsBound
     /\ ops' = ops + 1
     /\ table' = r.table
     /\ root' = HashOpt(r.root)
     /\ entries' = [x \in Keys |-> IF x = k THEN 0 ELSE entries[x]]
     /\ last' = Call("remove", k, IF k \in Keys THEN entries[k] ELSE 0, r.removed,
                     RemoveSaves(table, Open(table, root), k))
     /\ UNCHANGED kept
     /\ UNCHANGED authVars

\* The caller keeps the current root as one more named root: one more
\* root link to the node, so its count is incremented.
KeepRoot ==
  /\ ops < MaxOpsKept
  /\ root \in DOMAIN table
  /\ root \notin kept
  /\ Cardinality(kept) < MaxKept
  /\ kept' = kept \cup {root}
  /\ table' = save(table, increment_ref_count(Open(table, root)[1]))
  /\ UNCHANGED <<root, last, entries, ops>>
  /\ UNCHANGED authVars

\* One caller that holds only the current root.
Next ==
  \/ \E k \in Keys, v \in Vals : Insert(k, v)
  \/ \E k \in Keys \cup {EmptyKey} : Remove(k)

Spec == Init /\ [][Next]_vars

\* A caller that also keeps earlier roots.
NextKept ==
  \/ \E k \in Keys, v \in Vals : Insert(k, v)
  \/ \E k \in Keys \cup {EmptyKey} : Remove(k)
  \/ KeepRoot

SpecKept == Init /\ [][NextKept]_vars

\* The caller goes back to a kept root: it becomes the current root, and the
\* former current root is kept under its name.  No node is read or written.
Checkout(k) ==
  /\ ops < MaxOpsKept
  /\ k \in kept
  /\ root' = k
  /\ kept' = (kept \ {k}) \cup (IF root = NoHash THEN {} ELSE {root})
  /\ entries' = [x \in Keys |-> get(table, k, x)]
  /\ UNCHANGED <<table, last, ops>>
  /\ UNCHANGED authVars

\* A caller that keeps earlier roots and goes back to them.
NextRoots ==
  \/ \E k \in Keys, v \in Vals : Insert(k, v)
  \/ \E k \in Keys \cup {EmptyKey} : Remove(k)
  \/ KeepRoot
  \/ \E k \in kept : Checkout(k)

SpecRoots == Init /\ [][NextRoots]_vars

\* ---------------------------------------------------------- capabilities
\* Capability::root(), and the strings Capability::try_from accepts.
RootCap == "/:rw"
ValidCaps == {"/:rw", "/pub/a/:rw", "/pub/b/:r"}

\* The capability lists a caller asks for.
CapChoices == {<<>>, <<"/pub/a/:rw">>, <<"/pub/a/:rw", "/pub/b/:r">>}

\* auth.rs 187-190: "caps={capabilities}", the capabilities joined by commas.
RECURSIVE JoinCaps(_)
JoinCaps(caps) ==
  IF Len(caps) = 0 THEN <<>>
  ELSE IF Len(caps) = 1 THEN <<caps[1]>>
  ELSE <<caps[1], ",">> \o JoinCaps(Tail(caps))

\* value.split(','): the pieces between the commas; one empty piece for the
\* empty text.
SplitCaps(text) ==
  IF Len(text) = 0 THEN <<"">> ELSE SelectSeq(text, LAMBDA x : x # ",")

\* A parsing of the caps that keeps only the first capability.
send_auth_token_caps_FirstOnly(text) ==
  LET all == SelectSeq(SplitCaps(text), LAMBDA c : c \in ValidCaps)
  IN IF Len(all) = 0 THEN all ELSE <<all[1]>>

\* auth.rs 110-119: the capabilities send_auth_token reads from the url;
\* pieces that are no capability are dropped (filter_map).
send_auth_token_caps(text) ==
  SelectSeq(SplitCaps(text), LAMBDA c : c \in ValidCaps)

\* ------------------------------------------------------------ homeserver
\* The smallest session id that no session and no cookie uses.
FreeId ==
  LET used == {s.id : s \in sessions} \cup {cookies[p] : p \in Pubkys}
  IN CHOOSE i \in 1..(MaxSessions + NumPubkys + 1) :
       i \notin used /\ \A j \in 1..(i - 1) : j \in used

\* POST /signup and POST /session: a new session for the pubky of the token
\* with the capabilities of the token.
CreateSession(p, caps) == [id |-> FreeId, pubky |-> p, caps |-> caps]

\* GET /session with the cookie the client holds for the pubky.
GetSession(sess, jar, p) ==
  IF \E s \in sess : s.id = jar[p] /\ s.pubky = p
    THEN LET s == CHOOSE x \in sess : x.id = jar[p] /\ x.pubky = p
         IN [status |-> 200, body |-> Some([pubky |-> s.pubky, caps |-> s.caps])]
    ELSE [status |-> 404, body |-> None]

\* ---------------------------------------------------------- cookie store
\* A cookie store with room for one session.
store_session_after_signup_OneCookie(jar, p, id) ==
  [x \in Pubkys |-> IF x = p THEN id ELSE 0]

\* auth.rs 41-42: cookie_store.store_session_after_signup(&response, pubky).
store_session_after_signup(jar, p, id) == [jar EXCEPT ![p] = id]

\* auth.rs 82: cookie_store.delete_session_after_signout(pubky).
delete_session_after_signout(jar, p) == [jar EXCEPT ![p] = 0]

\* ---------------------------------------------------------------- client
\* A session call for which a missing session is an error like any other.
session_NotFoundIsError(sess, jar, p) ==
  LET res == GetSession(sess, jar, p)
  IN IF res.status >= 400 THEN [ok |-> FALSE, session |-> None]
     ELSE [ok |-> TRUE, session |-> res.body]

\* auth.rs 49-69: Ok(None) on NOT_FOUND, an error on any other error
\* status, else the session of the body.
session(sess, jar, p) ==
  LET res == GetSession(sess, jar, p)
  IN IF res.status = 404 THEN [ok |-> TRUE, session |-> None]
     ELSE IF res.status >= 400 THEN [ok |-> FALSE, session |-> None]
     ELSE [ok |-> TRUE, session |-> res.body]

\* The caller is sequential: while it waits in AuthRequest::response it
\* makes no other call.
CallerFree == req.phase # "waiting"

\* auth.rs 26-47: signup with a token of the root capability; the session
\* cookie of the response is stored for the pubky.
Signup(p) ==
  LET s == CreateSession(p, <<RootCap>>)
  IN /\ CallerFree
     /\ Cardinality(sessions) < MaxSessions
     /\ users' = users \cup {p}
     /\ sessions' = sessions \cup {s}
     /\ cookies' = store_session_after_signup(cookies, p, s.id)
     /\ latestCall' = [latestCall EXCEPT ![p] = "signup"]
     /\ UNCHANGED <<req, relay, sub, rx, got>>
     /\ UNCHANGED mastVars

\* auth.rs 160-173: POST pubky://{pubky}/session with the token; the
\* session cookie of the response replaces the one held for the pubky.
signin_with_authtoken(token) ==
  LET s == CreateSession(token.pubky, token.caps)
  IN /\ sessions' = sessions \cup {s}
     /\ cookies' = [cookies EXCEPT ![token.pubky] = s.id]

\* auth.rs 88-92: signin with a token of the root capability.
Signin(p) ==
  /\ CallerFree
  /\ p \in users
  /\ Cardinality(sessions) < MaxSessions
  /\ signin_with_authtoken([pubky |-> p, caps |-> <<RootCap>>])
  /\ latestCall' = [latestCall EXCEPT ![p] = "signin"]
  /\ UNCHANGED <<users, req, relay, sub, rx, got>>
  /\ UNCHANGED mastVars

\* auth.rs 71-85: DELETE the session, then delete the cookie.  Only the
\* call that the homeserver answers with success is a step.
Signout(p) ==
  /\ CallerFree
  /\ \E s \in sessions : s.id = cookies[p] /\ s.pubky = p
  /\ sessions' = {s \in sessions : ~(s.id = cookies[p] /\ s.pubky = p)}
  /\ cookies' = delete_session_after_signout(cookies, p)
  /\ latestCall' = [latestCall EXCEPT ![p] = "signout"]
  /\ UNCHANGED <<users, req, relay, sub, rx, got>>
  /\ UNCHANGED mastVars

\* Another client signs the pubky up on the homeserver.
SignupElsewhere(p) ==
  /\ p \notin users
  /\ users' = users \cup {p}
  /\ UNCHANGED <<sessions, cookies, latestCall, req, relay, sub, rx, got>>
  /\ UNCHANGED mastVars

\* auth.rs 175-232: a new client secret and url, a bounded(1) channel, and
\* a spawned task that subscribes to the relay channel of the secret.
AuthRequest(caps) ==
  /\ CallerFree
  /\ sub # "polling"
  /\ req.n < MaxRequests
  /\ Cardinality(sessions) < MaxSessions
  /\ req' = [phase |-> "waiting", caps |-> caps, url |-> JoinCaps(caps),
             sent |-> 0, timeouts |-> 0, n |-> req.n + 1]
  /\ relay' = None
  /\ sub' = "polling"
  /\ rx' = None
  /\ got' = None
  /\ UNCHANGED <<users, sessions, cookies, latestCall>>
  /\ UNCHANGED mastVars

\* auth.rs 94-158: the authenticator signs a token with the capabilities
\* of the url and posts it, encrypted, to the relay channel.
SendAuthToken(k) ==
  /\ req.phase \in {"waiting", "dropped"}
  /\ req.sent = 0
  /\ k \in users
  /\ relay' = Some([pubky |-> k, caps |-> send_auth_token_caps(req.url)])
  /\ req' = [req EXCEPT !.sent = k]
  /\ UNCHANGED <<users, sessions, cookies, latestCall, sub, rx, got>>
  /\ UNCHANGED mastVars

\* A condition under which every token is signed in with.
HasCapabilities_Always(token) == TRUE

\* auth.rs 267: !token.capabilities().is_empty().
HasCapabilities(token) == Len(token.caps) # 0

\* flume: all receivers of the channel are gone (tx.is_disconnected()).
Disconnected == req.phase = "dropped"

\* A timeout after which the GET is issued again whatever the channel.
SubscribeTimeout_IgnoresReceiver ==
  /\ sub = "polling"
  /\ relay = None
  /\ req.timeouts < MaxTimeouts
  /\ req' = [req EXCEPT !.timeouts = @ + 1]
  /\ UNCHANGED <<users, sessions, cookies, latestCall, relay, sub, rx, got>>
  /\ UNCHANGED mastVars

\* auth.rs 244-251: the GET timed out and the receiver is alive: `continue`.
SubscribeTimeout ==
  /\ sub = "polling"
  /\ relay = None
  /\ ~Disconnected
  /\ req.timeouts < MaxTimeouts
  /\ req' = [req EXCEPT !.timeouts = @ + 1]
  /\ UNCHANGED <<users, sessions, cookies, latestCall, relay, sub, rx, got>>
  /\ UNCHANGED mastVars

\* auth.rs 254-271 and 222-227: the GET returns the token; it is decrypted
\* and verified; the client signs in if the token has capabilities; the
\* pubky of the token is sent on the channel.
SubscribeReceive ==
  /\ sub = "polling"
  /\ Len(relay) = 1
  /\ LET token == relay[1]
     IN /\ IF HasCapabilities(token)
             THEN /\ signin_with_authtoken(token)
                  /\ latestCall' = [latestCall EXCEPT ![token.pubky] = "auth"]
             ELSE UNCHANGED <<sessions, cookies, latestCall>>
        /\ rx' = IF Disconnected THEN rx ELSE Some([ok |-> TRUE, pubky |-> token.pubky])
  /\ relay' = None
  /\ sub' = "done"
  /\ UNCHANGED <<users, req, got>>
  /\ UNCHANGED mastVars

\* auth.rs 290-295: AuthRequest::response returns what the task sent.
Response ==
  /\ req.phase = "waiting"
  /\ Len(rx) = 1
  /\ got' = rx
  /\ rx' = None
  /\ req' = [req EXCEPT !.phase = "answered"]
  /\ UNCHANGED <<users, sessions, cookies, latestCall, relay, sub>>
  /\ UNCHANGED mastVars

NextAuth ==
  \/ \E p \in Pubkys : Signup(p)
  \/ \E p \in Pubkys : Signin(p)
  \/ \E p \in Pubkys : Signout(p)
  \/ \E p \in Pubkys : SignupElsewhere(p)
  \/ \E caps \in CapChoices : AuthRequest(caps)
  \/ \E k \in Pubkys : SendAuthToken(k)
  \/ SubscribeTimeout
  \/ SubscribeReceive
  \/ Response

SpecAuth == Init /\ [][NextAuth]_vars

\* The spawned task runs (tokio::spawn) and the caller awaits the channel.
SpecAuthFair ==
  /\ Init /\ [][NextAuth]_vars
  /\ WF_vars(SubscribeReceive)
  /\ WF_vars(Response)

\* The caller drops the AuthRequest, and with it the only receiver, instead
\* of awaiting the response.
DropRequest ==
  /\ req.phase = "waiting"
  /\ req' = [req EXCEPT !.phase = "dropped"]
  /\ rx' = None
  /\ UNCHANGED <<users, sessions, cookies, latestCall, relay, sub, got>>
  /\ UNCHANGED mastVars

\* auth.rs 249-256 and 222-227: the GET timed out and every receiver is
\* gone: `break Err(error)`; the task returns the error, and sending it on
\* the channel fails.
SubscribeTimeoutDropped ==
  /\ sub = "polling"
  /\ relay = None
  /\ Disconnected
  /\ sub' = "timeout"
  /\ UNCHANGED <<users, sessions, cookies, latestCall, req, relay, rx, got>>
  /\ UNCHANGED mastVars

\* auth.rs 249-256 and 222-227: the GET failed with an error that is no
\* timeout: `break Err(error)`; the task returns the error and sends it on
\* the channel.
SubscribeError ==
  /\ sub = "polling"
  /\ sub' = "error"
  /\ rx' = IF Disconnected THEN rx ELSE Some([ok |-> FALSE, pubky |-> 0])
  /\ UNCHANGED <<users, sessions, cookies, latestCall, req, relay, got>>
  /\ UNCHANGED mastVars

\* The auth request with a relay whose requests can fail and a caller that
\* can give the request up; the caller makes no other call.
NextAuthFaulty ==
  \/ \E p \in Pubkys : SignupElsewhere(p)
  \/ \E caps \in CapChoices : AuthRequest(caps)
  \/ \E k \in Pubkys : SendAuthToken(k)
  \/ SubscribeTimeout
  \/ SubscribeReceive
  \/ Response
  \/ DropRequest
  \/ SubscribeTimeoutDropped
  \/ SubscribeError

SpecAuthFaulty ==
  /\ Init /\ [][NextAuthFaulty]_vars
  /\ WF_vars(SubscribeReceive)
  /\ WF_vars(Response)

\* ------------------------------------------------------------ properties
\* The surviving keys according to the history of calls.
Surviving == {k \in Keys : entries[k] # 0}

\* All orders in which the keys of S can be inserted.
Orders(S) == {f \in [1..Cardinality(S) -> S] : \A i, j \in 1..Cardinality(S) : f[i] = f[j] => i = j}

\* The root hash after inserting the surviving pairs of m into an empty tree
\* in the order given by the sequence of keys `order`.
RECURSIVE InsertAll(_, _, _, _)
InsertAll(T, h, order, m) ==
  IF Len(order) = 0 THEN h
  ELSE LET r == insert(T, Open(T, h), order[1], m[order[1]])
       IN InsertAll(r.table, Hash(r.root), SubSeq(order, 2, Len(order)), m)

FreshRoot(order, m) == InsertAll(EmptyTable, NoHash, order, m)

\* C1: after every sequence of inserts and removes the root hash equals the
\* root hash of an empty tree into which only the surviving pairs were
\* inserted, in any order.
C1_CanonicalForm ==
  \A order \in Orders(Surviving) : root = FreshRoot(order, entries)

\* C2: for every reachable tree t and every key k not in t, removing k from
\* insert(t, k, v) gives back the root hash of t.
C2_InsertRemoveInverse ==
  \A k \in Keys \ TreeKeys(table, root) : \A v \in Vals :
    LET i == insert(table, Open(table, root), k, v)
        r == remove(i.table, Some(i.root), k)
    IN HashOpt(r.root) = root

\* The ranks of the children of the node stored under h, 0 for an absent child.
ChildRank(T, c) == IF c \in DOMAIN T THEN Rank(T[c].node.key) ELSE -1

HeapOrdered(T, h) ==
  \A x \in Reach(T, h) :
    /\ ChildRank(T, T[x].node.left) <= Rank(T[x].node.key)
    /\ ChildRank(T, T[x].node.right) < Rank(T[x].node.key)

\* C9: in every reachable tree every node has a left child of rank not
\* greater than its own and a right child of strictly smaller rank.
C9_HeapOrder == HeapOrdered(table, root)

BstOrdered(T, h) ==
  \A x \in Reach(T, h) :
    /\ \A y \in Reach(T, T[x].node.left) : T[y].node.key < T[x].node.key
    /\ \A y \in Reach(T, T[x].node.right) : T[y].node.key > T[x].node.key

\* The number of nodes in the tree under h, counted along the paths.
RECURSIVE Size(_, _)
Size(T, h) ==
  IF h \notin DOMAIN T THEN 0
  ELSE 1 + Size(T, T[h].node.left) + Size(T, T[h].node.right)

\* C10: in every reachable tree the keys of a node's left subtree are
\* smaller than its key, those of its right subtree greater, and no key
\* occurs twice.
C10_BstOrder ==
  /\ BstOrdered(table, root)
  /\ Size(table, root) = Cardinality(TreeKeys(table, root))

\* Only inserts of distinct keys were made so far.
InsertsOnly == ops = Cardinality(Surviving) /\ kept = {}

\* C3: inserting a set of pairs with distinct keys into an empty tree gives
\* the same root hash for every permutation of the insertion order.
C3_OrderIndependence ==
  InsertsOnly => \A order \in Orders(Surviving) : FreshRoot(order, entries) = root

C3_Witness == InsertsOnly /\ Cardinality(Surviving) >= 4

\* C4: remove of a key that is not in the tree returns no removed node and a
\* root with the hash of the root passed in.
C4_RemoveMissing ==
  (last.op = "remove" /\ ~last.inTree) =>
    (last.removed = None /\ root = last.before)

C4_Witness ==
  /\ last.op = "remove" /\ ~last.inTree
  /\ last.upper > 0 /\ last.lower > 0
  /\ last.removed = None /\ root = last.before

\* C5: remove of a key that is in the tree returns the node with that key
\* and with the value most recently inserted for it.
C5_RemovedNode ==
  (last.op = "remove" /\ last.inTree) =>
    /\ Len(last.removed) = 1
    /\ last.removed[1].key = last.key
    /\ last.removed[1].value = last.latest

C5_Witness ==
  /\ last.op = "remove" /\ last.inTree
  /\ Len(last.removed) = 1
  /\ last.removed[1].value = 2
  /\ last.upper > 0

\* The named roots: the current root and the earlier roots still held.
NamedRoots == (kept \cup {root}) \ {NoHash}

\* The number of child links of table records that point to hash h.
Parents(T, h) ==
  Cardinality({x \in DOMAIN T : T[x].node.left = h}) +
  Cardinality({x \in DOMAIN T : T[x].node.right = h})

\* The number of named roots equal to hash h.
RootLinks(h) == (IF h = root THEN 1 ELSE 0) + (IF h \in kept THEN 1 ELSE 0)

RefCountSound == \A h \in DOMAIN table : table[h].rc = Parents(table, h) + RootLinks(h)

\* A step that is a call of remove.
RemoveStep == last'.op = "remove" /\ ops' = ops + 1

\* C6: every record has ref_count equal to the number of records whose left
\* or right child hash is its hash plus the number of named roots equal to
\* its hash; a remove on a table with such counts leaves such counts.
C6_RefCountSound ==
  [][(RemoveStep /\ RefCountSound) => RefCountSound']_vars

NoOrphans == \A h \in DOMAIN table : \E r \in NamedRoots : h \in Reach(table, r)

\* C7: every record of the table is reachable through child hashes from some
\* named root; a remove leaves no record behind as an orphan.
C7_NoOrphans ==
  [][(RemoveStep /\ NoOrphans) => NoOrphans']_vars

\* All hashes a root hash commits to: itself and the hashes below it.
RECURSIVE Committed(_)
Committed(h) ==
  IF h = NoHash THEN {} ELSE {h} \cup Committed(h[3]) \cup Committed(h[4])

\* Every node of the tree under the root hash r is in the table, with the
\* content r commits to.
Intact(T, r) ==
  \A h \in Committed(r) : h \in DOMAIN T /\ Hash(T[h].node) = h

\* C8: a remove on the current root leaves every node reachable from a kept
\* earlier root in the table, unchanged.
C8_KeptRootsPreserved ==
  [][(RemoveStep /\ \A r \in kept : Intact(table, r))
       => \A r \in kept : Intact(table', r)]_vars

C10_Witness ==
  /\ last.op = "remove" /\ Len(last.removed) = 1
  /\ last.removed[1].left # NoHash /\ last.removed[1].right # NoHash
  /\ Cardinality(TreeKeys(table, root)) >= 3
  /\ BstOrdered(table, root)


\* C11: after insert(T, k, v), get on the returned root returns v for k.
C11_ReadAfterWrite ==
  last.op = "insert" => get(table, root, last.key) = last.latest

\* An insert gave a key that was in the tree a new value.
C11_Witness ==
  /\ last.op = "insert" /\ last.inTree
  /\ last.before # root
  /\ get(table, root, last.key) = last.latest


\* C12: remove called with the empty key is rejected before any read or write
\* of the node table: such a call saves no node.
C12_EmptyKeyRejected ==
  (last.op = "remove" /\ last.key = EmptyKey) => last.saves = 0


\* A hash that names a child whose record is not in the table.
Dangling(T, h) == h # NoHash /\ h \notin DOMAIN T

\* remove of key meets a target, or a spine node under it, with such a child.
MissingChild(T, r, key) ==
  LET t == binary_search_path(T, r, key).found
  IN /\ Len(t) = 1
     /\ LET ls == RightSpine(T, Open(T, t[1].left))
            rs == LeftSpine(T, Open(T, t[1].right))
        IN \/ Dangling(T, t[1].left)
           \/ Dangling(T, t[1].right)
           \/ Len(ls) > 0 /\ Dangling(T, ls[Len(ls)].right)
           \/ Len(rs) > 0 /\ Dangling(T, rs[Len(rs)].left)

\* C13: when a child hash named by the target or by a spine node is missing
\* from the table, remove does not continue: it writes nothing and returns
\* no new root.
C13_CorruptionSurfaced ==
  [][(RemoveStep /\ MissingChild(table, Open(table, root), last'.key))
       => (table' = table /\ root' = root)]_vars


BranchChild(e) == IF e.branch = "Left" THEN e.node.left ELSE e.node.right

RECURSIVE SpineFrom(_, _, _)
SpineFrom(T, h, side) ==
  IF h \notin DOMAIN T THEN {}
  ELSE {h} \cup SpineFrom(T, IF side = "Left" THEN T[h].node.left
                                              ELSE T[h].node.right, side)

\* The records on the path affected by remove of key: the upper ancestors,
\* the target, the right spine of its left subtree and the left spine of its
\* right subtree.
AffectedPath(T, r, key) ==
  LET path == binary_search_path(T, r, key)
  IN {Hash(path.upper[i].node) : i \in 1..Len(path.upper)}
       \cup (IF Len(path.found) = 0 THEN {}
             ELSE {Hash(path.found[1])}
                    \cup SpineFrom(T, path.found[1].left, "Right")
                    \cup SpineFrom(T, path.found[1].right, "Left"))

\* A record differs between two tables.
Differs(T1, T2, h) ==
  \/ (h \in DOMAIN T1) # (h \in DOMAIN T2)
  \/ h \in DOMAIN T1 /\ h \in DOMAIN T2 /\ T1[h] # T2[h]

\* C20: remove writes or deletes only records of nodes on the affected
\* path; the record of every other node is unchanged.  A record that differs
\* after the call is the record of a node of the affected path, or the
\* version of such a node in the tree under the returned root.
C20_Frame ==
  [][RemoveStep =>
       LET affected == AffectedPath(table, Open(table, root), last'.key)
       IN \A h \in (DOMAIN table) \cup (DOMAIN table') :
            Differs(table, table', h)
              => \/ h \in affected
                 \/ /\ h \in Reach(table', root')
                    /\ \E a \in affected : a[1] = h[1]]_vars

\* A remove zipped two non-empty spines while the tree held a node off the
\* affected path.
C20_Witness ==
  /\ last.op = "remove" /\ last.saves >= 5
  /\ Cardinality(Reach(table, root)) >= 3
  /\ \E h \in Reach(table, root) : h \in Reach(table, last.before)


\* ------------------------------------------------- properties of the client
\* C14: over any sequence of successful signup, signin and signout calls of
\* one client for one pubky, session(pubky) reflects the latest of them: a
\* session of that pubky with the root capability after signup or signin,
\* and None, not an error, after signout.
C14_SessionReflectsLatest ==
  \A p \in Pubkys :
    LET r == session(sessions, cookies, p)
    IN /\ latestCall[p] \in {"signup", "signin"}
            => /\ r.ok /\ Len(r.session) = 1
               /\ r.session[1].pubky = p
               /\ \E i \in 1..Len(r.session[1].caps) : r.session[1].caps[i] = RootCap
       /\ latestCall[p] = "signout" => (r.ok /\ r.session = None)

\* One pubky was signed out after a signin while another is signed in.
C14_Witness ==
  \E p, q \in Pubkys :
    /\ p # q
    /\ latestCall[p] = "signout" /\ p \in users
    /\ session(sessions, cookies, p) = [ok |-> TRUE, session |-> None]
    /\ latestCall[q] = "signin"
    /\ session(sessions, cookies, q).session # None

\* The client holds a session for pubky p with exactly the capabilities caps.
HoldsSession(sess, jar, p, caps) ==
  session(sess, jar, p) = [ok |-> TRUE, session |-> Some([pubky |-> p, caps |-> caps])]

\* AuthRequest::response returns.
ResponseStep == req.phase = "waiting" /\ req'.phase = "answered"

Answered ==
  /\ req.phase = "answered"
  /\ got = Some([ok |-> TRUE, pubky |-> req.sent])
  /\ HoldsSession(sessions, cookies, req.sent, req.caps)

C16_SignupKeepsOtherSessions ==
  [][\A p \in Pubkys :
       (latestCall'[p] = "signup" /\ cookies'[p] # cookies[p])
         => \A q \in Pubkys \ {p} :
              session(sessions', cookies', q) = session(sessions, cookies, q)]_vars

\* Two pubkys signed up on the client, and both sessions are held.
C16_Witness ==
  \E p, q \in Pubkys :
    /\ p # q
    /\ latestCall[p] = "signup" /\ latestCall[q] = "signup"
    /\ HoldsSession(sessions, cookies, p, <<RootCap>>)
    /\ HoldsSession(sessions, cookies, q, <<RootCap>>)


\* ------------------------------------------- further properties of remove
\* C23: in remove, whenever the search finds the key, the lower part of the
\* path is empty.
C23_FoundLowerEmpty ==
  (last.op = "remove" /\ Len(last.removed) = 1) => last.lower = 0


\* C24: for every key k of the tree, get on the root returned by remove of k
\* returns absent for k and, for every other key, the value that get
\* returned on the root before the remove.
C24_RemoveKeepsOthers ==
  [][(RemoveStep /\ last'.inTree) =>
       /\ get(table', root', last'.key) = 0
       /\ \A x \in Keys \ {last'.key} :
            get(table', root', x) = get(table, root, x)]_vars


\* C25: remove of a key that is not in the tree leaves the node table as it
\* was: the same records with the same payloads and the same counts.  The
\* tree is one whose nodes are all in the table.
C25_MissingKeyKeepsTable ==
  [][(RemoveStep /\ Intact(table, root) /\ ~last'.inTree) => table' = table]_vars

\* A remove of a missing key rewrote two ancestors and met a lower path.
C25_Witness ==
  /\ last.op = "remove" /\ ~last.inTree /\ Len(last.removed) = 0
  /\ last.saves >= 4
  /\ last.lower > 0


\* The counts of the nodes remove applies decrement_ref_count to, as it has
\* loaded them: the upper nodes (remove.rs 25), the target (45) and, at each
\* index where both spines have a node, both nodes (104-138).
RemoveDecrements(T, r, key) ==
  LET path == binary_search_path(T, r, key)
      t == path.found
      T1 == IF Len(t) = 0 THEN T ELSE save(T, decrement_ref_count(t[1]))
      ls == IF Len(t) = 0 THEN <<>> ELSE RightSpine(T1, Open(T1, t[1].left))
      rs == IF Len(t) = 0 THEN <<>> ELSE LeftSpine(T1, Open(T1, t[1].right))
  IN {path.upper[i].node.rc : i \in 1..Len(path.upper)}
       \cup {t[i].rc : i \in 1..Len(t)}
       \cup {ls[i].rc : i \in 1..Min(Len(ls), Len(rs))}
       \cup {rs[i].rc : i \in 1..Min(Len(ls), Len(rs))}

\* C26: remove never applies decrement_ref_count to a node whose count is 0,
\* for the target, a spine node or an upper node, also when nodes are shared
\* with a kept earlier root; no count of the table has wrapped.
C26_NoUnderflow ==
  [][RemoveStep =>
       /\ \A c \in RemoveDecrements(table, Open(table, root), last'.key) : c > 0
       /\ \A h \in DOMAIN table' : table'[h].rc > 0]_vars

\* A remove on a root that is also kept zipped two spines under its target.
C26_Witness ==
  /\ last.op = "remove" /\ Len(last.removed) = 1
  /\ last.before \in kept
  /\ last.saves >= 5
  /\ \A h \in DOMAIN table : table[h].rc > 0


\* ------------------------------------- properties of the subscription task
\* The task receives and verifies a token.
ReceiveStep == sub = "polling" /\ sub' = "done"

\* C22: after receiving and verifying a token, the client signs in with it
\* if and only if its capabilities are non-empty: only then a session is
\* created, for the pubky and with the capabilities of the token; with no
\* capabilities the task returns the pubky of the token and no session
\* changes.
C22_SigninIffCapabilities ==
  [][ReceiveStep =>
       LET token == relay[1]
       IN /\ Len(token.caps) # 0
               => /\ \E s \in sessions' \ sessions :
                       s.pubky = token.pubky /\ s.caps = token.caps
                  /\ HoldsSession(sessions', cookies', token.pubky, token.caps)
          /\ Len(token.caps) = 0
               => sessions' = sessions /\ cookies' = cookies
          /\ ~Disconnected => rx' = Some([ok |-> TRUE, pubky |-> token.pubky])]_vars

\* A token without capabilities was answered while the client kept the
\* session it held for the pubky of the token.
C22_Witness ==
  /\ req.phase = "answered" /\ Len(req.caps) = 0
  /\ got = Some([ok |-> TRUE, pubky |-> req.sent])
  /\ HoldsSession(sessions, cookies, req.sent, <<RootCap>>)

\* The response returned the public key of the sender of the token.
Delivered ==
  /\ req.phase = "answered"
  /\ got = Some([ok |-> TRUE, pubky |-> req.sent])

\* C21: the task issues the GET again after a timeout exactly while the
\* receiver is alive; a token posted after timeouts is still delivered
\* through the response, unless the GET fails otherwise or the request is
\* dropped; a timeout with every receiver dropped, or another error, ends
\* the task with that error, and it issues no further GET.
C21_RetryLoop ==
  /\ [][/\ req'.timeouts = req.timeouts + 1
             => (~Disconnected /\ sub = "polling" /\ sub' = "polling")
        /\ (sub = "polling" /\ sub' = "timeout")
             => (Disconnected /\ relay = None /\ req' = req)
        /\ (sub = "polling" /\ sub' = "error")
             => (req' = req /\ (~Disconnected => rx' = Some([ok |-> FALSE, pubky |-> 0])))
        /\ sub \in {"timeout", "error"}
             => (sub' = sub /\ req'.timeouts = req.timeouts) \/ req'.n # req.n]_vars
  /\ (sub = "polling" /\ req.timeouts > 0 /\ req.sent # 0 /\ req.phase = "waiting")
       ~> (Delivered \/ sub = "error" \/ Disconnected)

\* A token posted after a timeout was delivered through the response.
C21_Witness ==
  /\ Delivered
  /\ req.timeouts > 0
  /\ sub = "done"
  /\ Len(req.caps) = 1

====
